---- MODULE Spec2Model ----
(***************************************************************************)
(* Model of python-detection/color_analyzer.py: the palette tables, the    *)
(* per-band percentage map (detect_colors), the dominant-colour ranking,   *)
(* the colour-blindness rule, the region analysis and the traffic-light    *)
(* rule.                                                                   *)
(*                                                                         *)
(* Numbers.  A percentage that detect_colors returns is the double nearest *)
(* to a one-decimal value; it is represented by that value in tenths       *)
(* (12.5 is 125).  The only arithmetic the program does on two such        *)
(* doubles is the sum red_low + red_high of analyze_traffic_light; the     *)
(* result of that sum is represented by its decimal value in tenths        *)
(* together with the sign of the binary rounding error (AddErr).           *)
(***************************************************************************)
EXTENDS Integers, Sequences, FiniteSets, TLC

\* ---------------------------------------------------------------- bounds
MaxRows == 2
MaxCols == 7
MaxPixels == 7
MaxTones == 4
MaxTopN == 4
WideCols == 119
WideMinor == 6

\* ------------------------------------------------------- the enumeration
ColorBlindnessType ==
    {"normal", "protanopia", "protanomaly", "deuteranopia", "deuteranomaly",
     "tritanopia", "tritanomaly", "achromatopsia"}

\* ------------------------------------------------------ the palette table
Band(n, lo, hi) == [name |-> n, lower |-> lo, upper |-> hi]

\* The dict COLOR_RANGES, family by family as the source lists it.
REDS ==
    << Band("red_low",       <<0, 100, 100>>,   <<10, 255, 255>>),
       Band("red_high",      <<160, 100, 100>>, <<180, 255, 255>>),
       Band("dark_red",      <<0, 100, 50>>,    <<10, 255, 100>>),
       Band("dark_red_high", <<160, 100, 50>>,  <<180, 255, 100>>) >>

ORANGES_BROWNS ==
    << Band("orange",        <<10, 100, 100>>,  <<20, 255, 255>>),
       Band("rust_orange",   <<10, 80, 80>>,    <<20, 255, 150>>),
       Band("brown",         <<10, 50, 50>>,    <<25, 200, 150>>),
       Band("dark_brown",    <<10, 50, 30>>,    <<25, 200, 80>>),
       Band("tan",           <<15, 30, 150>>,   <<30, 100, 220>>) >>

YELLOWS ==
    << Band("yellow",        <<25, 100, 100>>,  <<35, 255, 255>>),
       Band("gold",          <<20, 80, 100>>,   <<30, 255, 200>>),
       Band("pale_yellow",   <<25, 40, 180>>,   <<35, 100, 255>>) >>

GREENS ==
    << Band("green",         <<35, 100, 100>>,  <<85, 255, 255>>),
       Band("lime",          <<35, 100, 150>>,  <<55, 255, 255>>),
       Band("dark_green",    <<35, 100, 30>>,   <<85, 255, 100>>),
       Band("olive",         <<30, 30, 50>>,    <<50, 150, 150>>),
       Band("teal",          <<80, 80, 80>>,    <<95, 255, 200>>) >>

BLUES_CYANS ==
    << Band("cyan",          <<85, 100, 100>>,  <<100, 255, 255>>),
       Band("blue",          <<100, 100, 100>>, <<130, 255, 255>>),
       Band("light_blue",    <<100, 50, 150>>,  <<115, 150, 255>>),
       Band("dark_blue",     <<100, 100, 50>>,  <<130, 255, 120>>) >>

PURPLES_VIOLETS ==
    << Band("purple",        <<130, 100, 100>>, <<145, 255, 255>>),
       Band("violet",        <<145, 80, 80>>,   <<160, 255, 255>>),
       Band("lavender",      <<130, 30, 150>>,  <<155, 100, 255>>),
       Band("magenta",       <<150, 100, 100>>, <<165, 255, 255>>),
       Band("plum",          <<140, 50, 50>>,   <<160, 150, 150>>) >>

PINKS ==
    << Band("pink",          <<160, 50, 150>>,  <<175, 200, 255>>),
       Band("hot_pink",      <<165, 100, 150>>, <<175, 255, 255>>) >>

NEUTRALS ==
    << Band("white",         <<0, 0, 200>>,     <<180, 30, 255>>),
       Band("gray",          <<0, 0, 80>>,      <<180, 30, 200>>),
       Band("black",         <<0, 0, 0>>,       <<180, 255, 50>>) >>

\* The table with the pinks left out.
COLOR_RANGES_NoPinks ==
    REDS \o ORANGES_BROWNS \o YELLOWS \o GREENS \o BLUES_CYANS \o
    PURPLES_VIOLETS \o NEUTRALS

\* COLOR_RANGES in its iteration (insertion) order.
COLOR_RANGES ==
    REDS \o ORANGES_BROWNS \o YELLOWS \o GREENS \o BLUES_CYANS \o
    PURPLES_VIOLETS \o PINKS \o NEUTRALS

\* list(COLOR_RANGES.keys())
ColorRangeKeys == [i \in 1..Len(COLOR_RANGES) |-> COLOR_RANGES[i].name]

Range(s) == {s[i] : i \in 1..Len(s)}

PROTANOPIA_COLORS ==
    <<"red_low", "red_high", "dark_red", "dark_red_high",
      "orange", "rust_orange", "brown", "dark_brown",
      "green", "dark_green", "olive", "lime">>

PROTANOMALY_COLORS ==
    <<"red_low", "red_high", "dark_red", "dark_red_high",
      "orange", "rust_orange", "brown">>

DEUTERANOPIA_COLORS ==
    <<"red_low", "red_high", "dark_red", "dark_red_high",
      "green", "dark_green", "lime", "olive",
      "yellow", "gold", "brown">>

DEUTERANOMALY_COLORS ==
    <<"green", "dark_green", "lime", "olive", "yellow", "gold">>

\* The list with a misspelt band name.
TRITANOPIA_COLORS_Typo ==
    <<"blue", "light_blue", "dark_blue",
      "yellow", "gold", "pale_yellow",
      "cyan", "teal", "violet", "purpel">>

TRITANOPIA_COLORS ==
    <<"blue", "light_blue", "dark_blue",
      "yellow", "gold", "pale_yellow",
      "cyan", "teal", "violet", "purple">>

TRITANOMALY_COLORS ==
    <<"blue", "light_blue", "yellow", "gold">>

PROBLEMATIC_COLORS ==
    [t \in ColorBlindnessType |->
        CASE t = "normal" -> << >>
          [] t = "protanopia" -> PROTANOPIA_COLORS
          [] t = "protanomaly" -> PROTANOMALY_COLORS
          [] t = "deuteranopia" -> DEUTERANOPIA_COLORS
          [] t = "deuteranomaly" -> DEUTERANOMALY_COLORS
          [] t = "tritanopia" -> TRITANOPIA_COLORS
          [] t = "tritanomaly" -> TRITANOMALY_COLORS
          [] t = "achromatopsia" -> ColorRangeKeys]

COLOR_DISPLAY_NAMES ==
    ("red_low" :> "red") @@ ("red_high" :> "red") @@
    ("dark_red" :> "dark red (maroon)") @@
    ("dark_red_high" :> "dark red (burgundy)") @@
    ("orange" :> "orange") @@ ("rust_orange" :> "rust orange") @@
    ("brown" :> "brown") @@ ("dark_brown" :> "dark brown (chocolate)") @@
    ("tan" :> "tan (beige)") @@
    ("yellow" :> "yellow") @@ ("gold" :> "gold (amber)") @@
    ("pale_yellow" :> "pale yellow (cream)") @@
    ("green" :> "green") @@ ("lime" :> "lime green") @@
    ("dark_green" :> "dark green (forest)") @@
    ("olive" :> "olive (khaki)") @@ ("teal" :> "teal") @@
    ("cyan" :> "cyan") @@ ("blue" :> "blue") @@
    ("light_blue" :> "light blue (sky)") @@
    ("dark_blue" :> "dark blue (navy)") @@
    ("purple" :> "purple") @@ ("violet" :> "violet") @@
    ("lavender" :> "lavender") @@ ("magenta" :> "magenta (fuchsia)") @@
    ("plum" :> "plum") @@
    ("pink" :> "pink") @@ ("hot_pink" :> "hot pink") @@
    ("white" :> "white") @@ ("gray" :> "gray") @@ ("black" :> "black")

\* COLOR_DISPLAY_NAMES.get(color_name, color_name)
DisplayName(color_name) ==
    IF color_name \in DOMAIN COLOR_DISPLAY_NAMES
    THEN COLOR_DISPLAY_NAMES[color_name]
    ELSE color_name

\* ------------------------------------------------------------ the regions
\* The BGR pixels the regions are painted with.
RED        == <<0, 0, 255>>
CRIMSON    == <<85, 0, 255>>
YELLOW     == <<0, 255, 255>>
CHARTREUSE == <<0, 255, 85>>
BLACK      == <<0, 0, 0>>
PALE       == <<255, 204, 204>>

PIXELS == <<RED, CRIMSON, YELLOW, CHARTREUSE, BLACK, PALE>>
WIDE_PIXELS == {4, 6}

\* A region: its shape and, for each pixel of PIXELS, how many of the
\* rows*cols pixels carry it (no operation depends on pixel positions).
RECURSIVE SeqSum(_)
SeqSum(s) == IF s = << >> THEN 0 ELSE s[1] + SeqSum(Tail(s))

RECURSIVE Paint(_, _)
Paint(k, n) ==
    IF k = 0 THEN (IF n = 0 THEN {<< >>} ELSE {})
    ELSE UNION {{<<c>> \o p : p \in Paint(k - 1, n - c)} : c \in 0..n}

Tones(px) == Cardinality({i \in 1..Len(px) : px[i] > 0})

ROI(r, c, p) == [rows |-> r, cols |-> c, px |-> p]

ROIs ==
    UNION {{ROI(r, c, p) :
              p \in {q \in Paint(Len(PIXELS), r * c) : Tones(q) <= MaxTones}}
           : <<r, c>> \in {s \in (0..MaxRows) \X (0..MaxCols) :
                                s[1] * s[2] <= MaxPixels}}

\* A strip of n pixels in two tones: m pixels of PIXELS[i], the rest of
\* PIXELS[j].
TwoTone(i, j, m, n) ==
    [k \in 1..Len(PIXELS) |->
        IF k = i THEN (IF i = j THEN n ELSE m)
        ELSE IF k = j THEN n - m ELSE 0]

WideROIs ==
    UNION {{ROI(1, n, TwoTone(i, j, m, n)) :
              i \in WIDE_PIXELS, j \in WIDE_PIXELS,
              m \in 1..(IF n < WideMinor THEN n ELSE WideMinor)}
           : n \in 1..WideCols}

\* --------------------------------------------------------- cv2 primitives
Max2(a, b) == IF a >= b THEN a ELSE b
Min2(a, b) == IF a <= b THEN a ELSE b

\* a / b rounded to the nearest integer (a >= 0, b > 0)
RoundDiv(a, b) == (2 * a + b) \div (2 * b)

\* cv2.cvtColor(roi, cv2.COLOR_BGR2HSV) on one 8-bit pixel: V = max,
\* S = 255 * (V - min) / V, H = half the hue angle in degrees.
BGR2HSV(p) ==
    LET b == p[1]
        g == p[2]
        r == p[3]
        v == Max2(b, Max2(g, r))
        mn == Min2(b, Min2(g, r))
        diff == v - mn
        s == IF v = 0 THEN 0 ELSE RoundDiv(255 * diff, v)
        \* the hue angle times diff
        ang == IF v = r THEN 60 * (g - b)
               ELSE IF v = g THEN 120 * diff + 60 * (b - r)
               ELSE 240 * diff + 60 * (r - g)
        pos == IF ang < 0 THEN ang + 360 * diff ELSE ang
        h == IF diff = 0 THEN 0 ELSE RoundDiv(pos, 2 * diff)
    IN  <<(IF h >= 180 THEN h - 180 ELSE h), s, v>>

\* cv2.inRange on one pixel: every channel within [lower, upper]
InRange(hsv, lower, upper) ==
    \A ch \in 1..3 : lower[ch] <= hsv[ch] /\ hsv[ch] <= upper[ch]

\* hsv = cv2.cvtColor(roi, cv2.COLOR_BGR2HSV), pixel by pixel
HSV == [k \in 1..Len(PIXELS) |-> BGR2HSV(PIXELS[k])]

\* mask = cv2.inRange(hsv, lower, upper) for band i: 1 where the pixel is in
MASK ==
    [i \in 1..Len(COLOR_RANGES) |->
        [k \in 1..Len(PIXELS) |->
            IF InRange(HSV[k], COLOR_RANGES[i].lower, COLOR_RANGES[i].upper)
            THEN 1 ELSE 0]]

\* cv2.countNonZero(mask) for band i
RECURSIVE CountNonZero(_, _, _)
CountNonZero(roi, i, k) ==
    IF k > Len(PIXELS) THEN 0
    ELSE MASK[i][k] * roi.px[k] + CountNonZero(roi, i, k + 1)

\* roi.size of an array of shape (rows, cols, 3)
Size(roi) == roi.rows * roi.cols * 3

\* ---------------------------------------------------------- detect_colors
\* round(percentage, 1) of percentage = (color_pixels / total_pixels) * 100,
\* in tenths.  A value half way between two tenths is x.x5: with a total
\* that is a multiple of 16 the double is exact and round() takes the even
\* tenth; with 23/80, 49/80 and 51/80 the double product is off by one ulp
\* and round() follows it.  (A tie needs a total that is a multiple of 16;
\* a total that is a multiple of 400 is larger than any region drawn here.)
Round1(color_pixels, total_pixels) ==
    LET q == (color_pixels * 1000) \div total_pixels
        r == (color_pixels * 1000) % total_pixels
    IN  IF 2 * r < total_pixels THEN q
        ELSE IF 2 * r > total_pixels THEN q + 1
        ELSE IF color_pixels * 80 = 23 * total_pixels THEN q
        ELSE IF color_pixels * 80 = 49 * total_pixels THEN q + 1
        ELSE IF color_pixels * 80 = 51 * total_pixels THEN q
        ELSE IF q % 2 = 0 THEN q ELSE q + 1

\* percentage >= 5
Included_AtLeast(color_pixels, total_pixels) ==
    color_pixels * 100 >= 5 * total_pixels

\* percentage > 5  (Only include if more than 5%)
Included(color_pixels, total_pixels) ==
    color_pixels * 100 > 5 * total_pixels

\* The loop over COLOR_RANGES.items(), from band i on; color_percentages is
\* the dict built so far, as the sequence of its items in insertion order.
RECURSIVE DetectLoop(_, _, _)
DetectLoop(roi, i, color_percentages) ==
    IF i > Len(COLOR_RANGES) THEN color_percentages
    ELSE LET band == COLOR_RANGES[i]
             total_pixels == roi.rows * roi.cols
             color_pixels == CountNonZero(roi, i, 1)
         IN  DetectLoop(roi, i + 1,
                IF Included(color_pixels, total_pixels)
                THEN Append(color_percentages,
                            [name |-> band.name,
                             pct |-> Round1(color_pixels, total_pixels)])
                ELSE color_percentages)

\* A call's outcome: the value it returns, or the exception it raises.
Return(v) == [raised |-> FALSE, val |-> v]
Raise == [raised |-> TRUE, val |-> "cv2.error"]

\* cv2.cvtColor raises on an empty array.
CvtColorRaises(roi) == Size(roi) = 0

\* Lines 185-204: the conversion, the loop and the return.
DetectBody(roi) ==
    IF CvtColorRaises(roi) THEN Raise
    ELSE Return(DetectLoop(roi, 1, << >>))

\* detect_colors without its test of roi.size
detect_colors_unguarded(roi) == DetectBody(roi)

detect_colors(roi) ==
    IF Size(roi) = 0 THEN Return(<< >>) ELSE DetectBody(roi)

\* dict.get(key, 0)
Get(colors, key) ==
    IF \E i \in 1..Len(colors) : colors[i].name = key
    THEN colors[CHOOSE i \in 1..Len(colors) : colors[i].name = key].pct
    ELSE 0

\* ---------------------------------------------------- get_dominant_colors
\* sorted(items, key=percentage, reverse=True): a stable sort, so items of
\* equal percentage keep their order.  Insert x behind every item whose
\* percentage is at least x's.
RECURSIVE InsertDesc(_, _)
InsertDesc(sorted, x) ==
    IF sorted = << >> THEN <<x>>
    ELSE IF sorted[1].pct >= x.pct
         THEN <<sorted[1]>> \o InsertDesc(Tail(sorted), x)
         ELSE <<x>> \o sorted

RECURSIVE SortedDesc(_, _)
SortedDesc(items, acc) ==
    IF items = << >> THEN acc
    ELSE SortedDesc(Tail(items), InsertDesc(acc, items[1]))

\* The loop without its break.
RECURSIVE DominantLoop_NoBreak(_, _, _, _, _)
DominantLoop_NoBreak(sorted_colors, i, seen, dominant, top_n) ==
    IF i > Len(sorted_colors) THEN dominant
    ELSE LET display_name == DisplayName(sorted_colors[i].name)
             fresh == display_name \notin seen
         IN  DominantLoop_NoBreak(sorted_colors, i + 1,
                IF fresh THEN seen \cup {display_name} ELSE seen,
                IF fresh THEN Append(dominant, display_name) ELSE dominant,
                top_n)

\* The loop over sorted_colors from item i on, with its break.
RECURSIVE DominantLoop(_, _, _, _, _)
DominantLoop(sorted_colors, i, seen, dominant, top_n) ==
    IF i > Len(sorted_colors) THEN dominant
    ELSE LET display_name == DisplayName(sorted_colors[i].name)
             fresh == display_name \notin seen
             seen2 == IF fresh THEN seen \cup {display_name} ELSE seen
             dominant2 == IF fresh THEN Append(dominant, display_name)
                          ELSE dominant
         IN  IF Len(dominant2) >= top_n THEN dominant2
             ELSE DominantLoop(sorted_colors, i + 1, seen2, dominant2, top_n)

get_dominant_colors(roi, top_n) ==
    LET color_percentages == detect_colors(roi)
    IN  IF color_percentages.raised THEN Raise
        ELSE Return(DominantLoop(SortedDesc(color_percentages.val, << >>),
                                 1, {}, << >>, top_n))

\* ------------------------------------------------ is_problematic_for_user
\* percentage >= 10
Significant_AtLeast(percentage) == percentage >= 100

\* percentage > 10
Significant(percentage) == percentage > 100

\* The loop over detected_colors.items() from item i on.
RECURSIVE FoundLoop(_, _, _, _)
FoundLoop(detected_colors, problematic, i, found_problematic) ==
    IF i > Len(detected_colors) THEN found_problematic
    ELSE LET color_name == detected_colors[i].name
             percentage == detected_colors[i].pct
         IN  FoundLoop(detected_colors, problematic, i + 1,
                IF color_name \in Range(problematic) /\ Significant(percentage)
                THEN Append(found_problematic,
                            <<DisplayName(color_name), percentage>>)
                ELSE found_problematic)

\* found_problematic[:3]
FirstThree(found_problematic) ==
    SubSeq(found_problematic, 1, Min2(3, Len(found_problematic)))

\* found_problematic[:2]
FirstTwo(found_problematic) ==
    SubSeq(found_problematic, 1, Min2(2, Len(found_problematic)))

\* ", ".join(names)
RECURSIVE Join(_)
Join(names) ==
    IF names = << >> THEN ""
    ELSE IF Len(names) = 1 THEN names[1]
    ELSE names[1] \o ", " \o Join(Tail(names))

\* Python's None and a string: the empty and the one-element sequence.
None == << >>
Some(str) == <<str>>

is_problematic_for_user(detected_colors, colorblindness_type) ==
    LET problematic == PROBLEMATIC_COLORS[colorblindness_type]
        found_problematic == FoundLoop(detected_colors, problematic, 1, << >>)
        first == FirstTwo(found_problematic)
        colors_str == Join([k \in 1..Len(first) |-> first[k][1]])
    IN  IF problematic = << >> THEN <<FALSE, None>>
        ELSE IF found_problematic # << >>
             THEN <<TRUE,
                    Some("Contains " \o colors_str \o " - may be difficult to see")>>
             ELSE <<FALSE, None>>

\* --------------------------------------------------------- analyze_region
analyze_region(roi, colorblindness_type) ==
    IF Size(roi) = 0
    THEN Return([dominant_colors |-> << >>,
                 is_problematic |-> FALSE,
                 warning |-> None])
    ELSE LET detected_colors == detect_colors(roi)
             dominant == get_dominant_colors(roi, 3)
             verdict == is_problematic_for_user(detected_colors.val,
                                                colorblindness_type)
         IN  IF detected_colors.raised \/ dominant.raised THEN Raise
             ELSE Return([dominant_colors |-> dominant.val,
                          is_problematic |-> verdict[1],
                          warning |-> verdict[2],
                          color_breakdown |-> detected_colors.val])

\* -------------------------------------------------- analyze_traffic_light
\* The binade of the double nearest to t/10: 2^e <= t/10 < 2^(e+1), t >= 10.
RECURSIVE Binade(_, _)
Binade(t, e) == IF 10 * 2^(e + 1) <= t THEN Binade(t, e + 1) ELSE e

\* 2^k mod 20 for k >= 2
Pow2Mod20(k) == <<4, 8, 16, 12>>[((k - 2) % 4) + 1]

\* (t * 2^(52 - e)) mod 20, the low end of t/10 counted in tenths of an ulp
UlpTenthsMod20(t) == ((t % 20) * Pow2Mod20(52 - Binade(t, 0))) % 20

\* The double nearest to t/10 minus t/10, in tenths of that double's ulp.
LiteralErr(t) ==
    LET r == UlpTenthsMod20(t) % 10 IN IF r < 5 THEN 0 - r ELSE 10 - r

\* n/d rounded to the nearest integer, ties to the one that makes odd + result
\* even (round-half-even of a mantissa whose integer part has parity odd).
RoundNearestEven(n, d, odd) ==
    LET q == n \div d
        r == n % d
    IN  IF 2 * r < d THEN q
        ELSE IF 2 * r > d THEN q + 1
        ELSE IF (q + odd) % 2 = 0 THEN q ELSE q + 1

Sign(x) == IF x > 0 THEN 1 ELSE IF x < 0 THEN 0 - 1 ELSE 0

\* The IEEE-754 sum of the doubles nearest to a/10 and b/10, compared with
\* the double nearest to (a + b)/10: 1 above it, -1 below it, 0 equal.
\* (a, b >= 10; colors.get(key, 0) adds an exact 0.)
AddErr(a, b) ==
    IF a = 0 \/ b = 0 THEN 0
    ELSE LET c == a + b
             ec == Binade(c, 0)
             da == ec - Binade(a, 0)
             db == ec - Binade(b, 0)
             L == 2^Max2(da, db)
             m20 == UlpTenthsMod20(c)
             rc == m20 % 10
             odd == (m20 - rc) \div 10
             \* the exact sum minus the mantissa's integer part, times 10 L
             N == rc * L + LiteralErr(a) * (L \div 2^da)
                         + LiteralErr(b) * (L \div 2^db)
             nearest == IF rc >= 5 THEN 1 ELSE 0
         IN  IF c = 10 * 2^ec /\ N < 0
             THEN Sign(RoundNearestEven(2 * N, 10 * L, 0))
             ELSE Sign(RoundNearestEven(N, 10 * L, odd) - nearest)

\* A double: the decimal value in tenths and the sign of its distance from
\* the double nearest to that value.
Float(t, e) == [t |-> t, e |-> e]
FloatAdd(a, b) == Float(a + b, AddErr(a, b))
Gt(x, y) == x.t > y.t \/ (x.t = y.t /\ x.e > y.e)

\* min(pct / 100, 1.0), kept in the unit of pct (1.0 is 100 per cent)
Confidence(pct) == IF Gt(pct, Float(1000, 0)) THEN Float(1000, 0) ELSE pct

analyze_traffic_light(roi) ==
    IF Size(roi) = 0
    THEN Return([state |-> "unknown", confidence |-> Float(0, 0)])
    ELSE LET colors == detect_colors(roi)
             red_pct == FloatAdd(Get(colors.val, "red_low"),
                                 Get(colors.val, "red_high"))
             yellow_pct == Float(Get(colors.val, "yellow"), 0)
             green_pct == Float(Get(colors.val, "green"), 0)
             ten == Float(100, 0)
         IN  IF colors.raised THEN Raise
             ELSE IF Gt(red_pct, yellow_pct) /\ Gt(red_pct, green_pct)
                     /\ Gt(red_pct, ten)
             THEN Return([state |-> "red", confidence |-> Confidence(red_pct)])
             ELSE IF Gt(yellow_pct, red_pct) /\ Gt(yellow_pct, green_pct)
                     /\ Gt(yellow_pct, ten)
             THEN Return([state |-> "yellow",
                          confidence |-> Confidence(yellow_pct)])
             ELSE IF Gt(green_pct, red_pct) /\ Gt(green_pct, yellow_pct)
                     /\ Gt(green_pct, ten)
             THEN Return([state |-> "green",
                          confidence |-> Confidence(green_pct)])
             ELSE Return([state |-> "unknown", confidence |-> Float(0, 0)])

\* ------------------------------------------------------ the state machine
\* roi: the region the caller holds; call: the call made on it whose result
\* the caller has not taken yet, with its arguments besides roi (NoCall
\* between calls); ret: what that call returned, in the field of its return
\* type, or that it raised.
VARIABLES roi, call, ret
vars == <<roi, call, ret>>

NoCall == [op |-> "none"]

NoResult ==
    [raised |-> FALSE,
     colors |-> << >>,
     dominant |-> << >>,
     verdict |-> <<FALSE, None>>,
     region |-> [dominant_colors |-> << >>, is_problematic |-> FALSE,
                 warning |-> None],
     light |-> [state |-> "unknown", confidence |-> Float(0, 0)]]

\* The outcome r of a call, kept in the field of its return type.
Result(field, r) ==
    IF r.raised THEN [NoResult EXCEPT !.raised = TRUE]
    ELSE [NoResult EXCEPT ![field] = r.val]

Init ==
    /\ roi \in ROIs
    /\ call = NoCall
    /\ ret = NoResult

InitWide ==
    /\ roi \in WideROIs
    /\ call = NoCall
    /\ ret = NoResult

DetectColors ==
    /\ call = NoCall
    /\ call' = [op |-> "detect_colors"]
    /\ ret' = Result("colors", detect_colors(roi))
    /\ UNCHANGED roi

GetDominantColors ==
    \E top_n \in 0..MaxTopN :
        /\ call = NoCall
        /\ call' = [op |-> "get_dominant_colors", top_n |-> top_n]
        /\ ret' = Result("dominant", get_dominant_colors(roi, top_n))
        /\ UNCHANGED roi

IsProblematicForUser ==
    \E colorblindness_type \in ColorBlindnessType :
        LET detected_colors == detect_colors(roi).val
        IN  /\ call = NoCall
            /\ ~detect_colors(roi).raised
            /\ call' = [op |-> "is_problematic_for_user",
                        detected_colors |-> detected_colors,
                        colorblindness_type |-> colorblindness_type]
            /\ ret' = Result("verdict",
                           Return(is_problematic_for_user(detected_colors,
                                                          colorblindness_type)))
            /\ UNCHANGED roi

AnalyzeRegion ==
    \E colorblindness_type \in ColorBlindnessType :
        /\ call = NoCall
        /\ call' = [op |-> "analyze_region",
                    colorblindness_type |-> colorblindness_type]
        /\ ret' = Result("region", analyze_region(roi, colorblindness_type))
        /\ UNCHANGED roi

AnalyzeTrafficLight ==
    /\ call = NoCall
    /\ call' = [op |-> "analyze_traffic_light"]
    /\ ret' = Result("light", analyze_traffic_light(roi))
    /\ UNCHANGED roi

\* The caller takes the result; the analyzer keeps nothing of the call.
TakeResult ==
    /\ call # NoCall
    /\ call' = NoCall
    /\ ret' = NoResult
    /\ UNCHANGED roi

Next ==
    \/ DetectColors
    \/ GetDominantColors
    \/ IsProblematicForUser
    \/ AnalyzeRegion
    \/ AnalyzeTrafficLight
    \/ TakeResult

Spec == Init /\ [][Next]_vars
SpecWide == InitWide /\ [][Next]_vars

\* ============================================================ properties
NonEmpty == Size(roi) > 0
Called(op) == call.op = op
Returned(op) == Called(op) /\ ~ret.raised

\* The position of a band in the table.
BandIndex(name) ==
    CHOOSE i \in 1..Len(COLOR_RANGES) : COLOR_RANGES[i].name = name

BandNames == {COLOR_RANGES[i].name : i \in 1..Len(COLOR_RANGES)}

\* The pixels of roi that lie in the band called name.
BandPixels(name) == CountNonZero(roi, BandIndex(name), 1)

Abs(x) == IF x < 0 THEN 0 - x ELSE x

\* pct (in tenths) is a nearest tenth of 100 * color_pixels / total_pixels
NearestTenth(pct, color_pixels, total_pixels) ==
    2 * Abs(pct * total_pixels - 1000 * color_pixels) <= total_pixels

\* ----------------------------------------------------------------- C1
\* C1 as stated: on a non-empty region every percentage detect_colors
\* returns is strictly above 5.0 and at most 100.0, to one decimal place.
C1_PercentagesAboveFive ==
    (Called("detect_colors") /\ NonEmpty) =>
        /\ ~ret.raised
        /\ \A i \in 1..Len(ret.colors) :
              /\ ret.colors[i].pct > 50
              /\ ret.colors[i].pct <= 1000
              /\ NearestTenth(ret.colors[i].pct, BandPixels(ret.colors[i].name),
                              roi.rows * roi.cols)

\* C1 amended: on a non-empty region every percentage detect_colors returns
\* is at least 5.0 and at most 100.0, is the band's share of the pixels
\* rounded to one decimal place, and that share itself is strictly above 5
\* per cent (so 5.0 is returned for a share in (5, 5.05)).
C1_PercentagesFromFive ==
    (Called("detect_colors") /\ NonEmpty) =>
        /\ ~ret.raised
        /\ \A i \in 1..Len(ret.colors) :
              /\ ret.colors[i].pct >= 50
              /\ ret.colors[i].pct <= 1000
              /\ NearestTenth(ret.colors[i].pct, BandPixels(ret.colors[i].name),
                              roi.rows * roi.cols)
              /\ BandPixels(ret.colors[i].name) * 100 > 5 * roi.rows * roi.cols

\* detect_colors has returned a band at exactly 5.0.
C1_ReturnsExactlyFive ==
    /\ Returned("detect_colors")
    /\ NonEmpty
    /\ \E i \in 1..Len(ret.colors) : ret.colors[i].pct = 50

\* ----------------------------------------------------------------- C2
NoDuplicates(s) == \A i, j \in 1..Len(s) : s[i] = s[j] => i = j

\* C2: get_dominant_colors returns at most top_n names, for every
\* top_n >= 0, and no name twice.
C2_AtMostTopNDistinct ==
    Called("get_dominant_colors") =>
        /\ ~ret.raised
        /\ Len(ret.dominant) <= call.top_n
        /\ NoDuplicates(ret.dominant)

\* ----------------------------------------------------------------- C3
\* The three channel values in exact decimal arithmetic (tenths).
RedValue ==
    Get(detect_colors(roi).val, "red_low") + Get(detect_colors(roi).val, "red_high")
YellowValue == Get(detect_colors(roi).val, "yellow")
GreenValue == Get(detect_colors(roi).val, "green")

Wins(x, y, z) == x > y /\ x > z /\ x > 100

\* C3: on a non-empty region analyze_traffic_light returns state X exactly
\* when X's value is strictly above both other values and above 10.0, with
\* confidence min(value/100, 1.0) in [0, 1]; otherwise "unknown" with
\* confidence 0.
C3_TrafficLightRule ==
    (Called("analyze_traffic_light") /\ NonEmpty) =>
        /\ ~ret.raised
        /\ ret.light.state \in {"red", "yellow", "green", "unknown"}
        /\ ret.light.state = "red" <=> Wins(RedValue, YellowValue, GreenValue)
        /\ ret.light.state = "yellow" <=> Wins(YellowValue, RedValue, GreenValue)
        /\ ret.light.state = "green" <=> Wins(GreenValue, RedValue, YellowValue)
        /\ ret.light.state = "red" =>
              ret.light.confidence.t = Min2(RedValue, 1000)
        /\ ret.light.state = "yellow" =>
              ret.light.confidence.t = Min2(YellowValue, 1000)
        /\ ret.light.state = "green" =>
              ret.light.confidence.t = Min2(GreenValue, 1000)
        /\ ret.light.state = "unknown" => ret.light.confidence = Float(0, 0)
        /\ ~Gt(ret.light.confidence, Float(1000, 0))
        /\ ret.light.confidence.t >= 0

\* ----------------------------------------------------------------- C4
\* The entries of a detection result that are in the profile's set and
\* above 10.0.
Qualifies(entry, colorblindness_type) ==
    /\ entry.name \in Range(PROBLEMATIC_COLORS[colorblindness_type])
    /\ entry.pct > 100

\* C4: is_problematic_for_user returns (True, warning) exactly when some
\* entry is in the profile's problematic set with a percentage above 10.0,
\* and (False, None) otherwise.
C4_FlagIffSignificantProblematic ==
    Called("is_problematic_for_user") =>
        LET hit == \E i \in 1..Len(call.detected_colors) :
                      Qualifies(call.detected_colors[i],
                                call.colorblindness_type)
        IN  /\ ~ret.raised
            /\ hit => (ret.verdict[1] = TRUE /\ ret.verdict[2] # None)
            /\ ~hit => ret.verdict = <<FALSE, None>>
            /\ call.colorblindness_type = "normal" => ret.verdict = <<FALSE, None>>

\* A band of the profile's set is present at no more than 10.0 and the call
\* has not flagged the region.
C4_BelowTenNotFlagged ==
    /\ Returned("is_problematic_for_user")
    /\ \E i \in 1..Len(call.detected_colors) :
          /\ call.detected_colors[i].name \in
                Range(PROBLEMATIC_COLORS[call.colorblindness_type])
          /\ call.detected_colors[i].pct <= 100
    /\ ret.verdict = <<FALSE, None>>

\* ----------------------------------------------------------------- C5
\* The qualifying entries in the iteration order of the detection result.
QualifyingNames(detected_colors, colorblindness_type) ==
    LET Q(entry) == Qualifies(entry, colorblindness_type)
        q == SelectSeq(detected_colors, Q)
    IN  [k \in 1..Len(q) |-> DisplayName(q[k].name)]

WarningText(names) ==
    "Contains " \o
    (IF Len(names) = 1 THEN names[1] ELSE names[1] \o ", " \o names[2]) \o
    " - may be difficult to see"

\* C5: a warning is "Contains " + names + " - may be difficult to see" with
\* names the display names of the first min(2, number qualifying) qualifying
\* bands in the order of the detection result, joined by ", ".
C5_WarningNamesFirstTwo ==
    (Called("is_problematic_for_user") /\ ret.verdict[2] # None) =>
        LET names == QualifyingNames(call.detected_colors,
                                     call.colorblindness_type)
        IN  /\ Len(names) >= 1
            /\ ret.verdict[2] = Some(WarningText(SubSeq(names, 1, Min2(2, Len(names)))))

\* A warning has been built when three or more bands qualify.
C5_ThreeQualify ==
    /\ Returned("is_problematic_for_user")
    /\ ret.verdict[2] # None
    /\ Len(QualifyingNames(call.detected_colors, call.colorblindness_type)) >= 3

\* ----------------------------------------------------------------- C6
\* C6: on a zero-area region no operation raises; detect_colors returns the
\* empty mapping, get_dominant_colors the empty list for every top_n,
\* analyze_region empty dominant_colors, is_problematic False, warning None
\* and no color_breakdown, analyze_traffic_light "unknown" with confidence 0.
C6_ZeroAreaNeutral ==
    (~NonEmpty /\ call # NoCall) =>
        /\ ~ret.raised
        /\ Called("detect_colors") => ret.colors = << >>
        /\ Called("get_dominant_colors") => ret.dominant = << >>
        /\ Called("analyze_region") =>
              /\ DOMAIN ret.region = {"dominant_colors", "is_problematic", "warning"}
              /\ ret.region.dominant_colors = << >>
              /\ ret.region.is_problematic = FALSE
              /\ ret.region.warning = None
        /\ Called("analyze_traffic_light") =>
              /\ ret.light.state = "unknown"
              /\ ret.light.confidence = Float(0, 0)

\* get_dominant_colors has returned on a region of some rows and no columns.
C6_ZeroAreaCalled ==
    /\ roi.rows > 0
    /\ roi.cols = 0
    /\ Returned("get_dominant_colors")
    /\ call.top_n = 3

\* ----------------------------------------------------------------- C7
\* The detected bands by percentage descending, equal percentages in table
\* order: the band at place r has r - 1 bands before it.
Before(x, y) ==
    x.pct > y.pct \/ (x.pct = y.pct /\ BandIndex(x.name) < BandIndex(y.name))

Ranked(d) ==
    [r \in 1..Len(d) |->
        d[CHOOSE i \in 1..Len(d) :
            Cardinality({j \in 1..Len(d) : Before(d[j], d[i])}) = r - 1]]

\* The display names of s with every later repetition dropped.
FirstOccurrences(s) ==
    LET names == [r \in 1..Len(s) |-> DisplayName(s[r].name)]
        keep == {r \in 1..Len(s) : \A r2 \in 1..(r - 1) : names[r2] # names[r]}
    IN  [m \in 1..Cardinality(keep) |->
            names[CHOOSE r \in keep :
                     Cardinality({x \in keep : x < r}) = m - 1]]

\* C7: the output of get_dominant_colors is the display names of the
\* detected bands sorted by percentage descending (ties in table order),
\* later repetitions dropped, cut off once top_n names are collected.
C7_DominantOrder ==
    Called("get_dominant_colors") =>
        LET unique == FirstOccurrences(Ranked(detect_colors(roi).val))
        IN  /\ ~ret.raised
            /\ ret.dominant = SubSeq(unique, 1, Min2(call.top_n, Len(unique)))

\* ----------------------------------------------------------------- C8
FullHue(band) == band.lower[1] = 0 /\ band.upper[1] = 180

Neutrals == {COLOR_RANGES[i].name : i \in {j \in 1..Len(COLOR_RANGES) : FullHue(COLOR_RANGES[j])}}

\* C8 as stated: the palette table, from which every reported band comes,
\* has exactly 33 bands, of which exactly white, gray and black span the
\* full hue range [0, 180].
C8_PaletteHas33Bands ==
    /\ \A i \in 1..Len(ret.colors) : ret.colors[i].name \in BandNames
    /\ Len(COLOR_RANGES) = 33
    /\ Cardinality(BandNames) = 33
    /\ Neutrals = {"white", "gray", "black"}

\* C8 amended: the palette table, from which every reported band comes, has
\* exactly 31 bands under distinct names, 28 in the seven hue families and
\* exactly three neutrals (white, gray, black), the only bands whose hue
\* range is the full [0, 180].
C8_PaletteHas31Bands ==
    /\ \A i \in 1..Len(ret.colors) : ret.colors[i].name \in BandNames
    /\ Len(COLOR_RANGES) = 31
    /\ Cardinality(BandNames) = 31
    /\ Neutrals = {"white", "gray", "black"}
    /\ Cardinality(BandNames \ Neutrals) = 28

\* detect_colors has walked the table and reported its last band, a neutral.
C8_NeutralDetected ==
    /\ Returned("detect_colors")
    /\ NonEmpty
    /\ \E i \in 1..Len(ret.colors) :
          /\ ret.colors[i].name = COLOR_RANGES[Len(COLOR_RANGES)].name
          /\ ret.colors[i].name \in Neutrals

\* ----------------------------------------------------------------- C9
\* C9: the ACHROMATOPSIA set is the set of all band names, so that profile
\* flags every detection result with a band above 10.0; and every name in
\* any profile's set is a key of the palette and of the display-name table.
C9_ProfilesNameBands ==
    /\ Range(PROBLEMATIC_COLORS["achromatopsia"]) = BandNames
    /\ \A t \in ColorBlindnessType :
          /\ Range(PROBLEMATIC_COLORS[t]) \subseteq BandNames
          /\ Range(PROBLEMATIC_COLORS[t]) \subseteq DOMAIN COLOR_DISPLAY_NAMES
    /\ (Called("is_problematic_for_user")
          /\ call.colorblindness_type = "achromatopsia") =>
            (ret.verdict[1] = TRUE <=>
                \E i \in 1..Len(call.detected_colors) :
                    call.detected_colors[i].pct > 100)

\* The ACHROMATOPSIA profile has flagged a region whose only bands above
\* 10.0 are in no other profile's set.
C9_AchromatopsiaFlagsNeutral ==
    /\ Returned("is_problematic_for_user")
    /\ call.colorblindness_type = "achromatopsia"
    /\ ret.verdict[1] = TRUE
    /\ \A i \in 1..Len(call.detected_colors) :
          \A t \in ColorBlindnessType \ {"achromatopsia"} :
              call.detected_colors[i].name \notin Range(PROBLEMATIC_COLORS[t])

\* ---------------------------------------------------------------- C10
\* The warnings that name one or two bands of d that are above 10.0.
WarningsOver(d) ==
    LET big == {DisplayName(d[i].name) : i \in {j \in 1..Len(d) : d[j].pct > 100}}
    IN  {WarningText(<<a>>) : a \in big} \cup
        {WarningText(<<a, b>>) : a \in big, b \in big}

\* C10: on a non-empty region analyze_region returns all four fields;
\* color_breakdown is detect_colors(roi); dominant_colors has at most 3
\* entries, each the display name of a band of color_breakdown, and is empty
\* exactly when color_breakdown is; is_problematic is True exactly when
\* warning is not None; and then every name in the warning is the display
\* name of a band of color_breakdown above 10.0.
C10_RegionFieldsConsistent ==
    (Called("analyze_region") /\ NonEmpty) =>
        /\ ~ret.raised
        /\ DOMAIN ret.region =
              {"dominant_colors", "is_problematic", "warning", "color_breakdown"}
        /\ ret.region.color_breakdown = detect_colors(roi).val
        /\ Len(ret.region.dominant_colors) <= 3
        /\ \A k \in 1..Len(ret.region.dominant_colors) :
              \E i \in 1..Len(ret.region.color_breakdown) :
                  DisplayName(ret.region.color_breakdown[i].name)
                      = ret.region.dominant_colors[k]
        /\ ret.region.dominant_colors = << >> <=> ret.region.color_breakdown = << >>
        /\ ret.region.is_problematic = TRUE <=> ret.region.warning # None
        /\ ret.region.is_problematic = TRUE =>
              ret.region.warning[1] \in WarningsOver(ret.region.color_breakdown)

\* analyze_region has flagged a non-empty region that shows more than three
\* display names.
C10_FlaggedBusyRegion ==
    /\ Returned("analyze_region")
    /\ NonEmpty
    /\ ret.region.is_problematic = TRUE
    /\ Len(ret.region.dominant_colors) = 3
    /\ Cardinality({DisplayName(ret.region.color_breakdown[i].name) :
                      i \in 1..Len(ret.region.color_breakdown)}) > 3

====
